---- MODULE Spec2Model ----
(***************************************************************************)
(* A model of NavSim (src/src/nav_sim_core.cpp): the periodic tick         *)
(* timerCallback, the pose reset callbackInitialpose, the command handler   *)
(* and initialize/parseYaml.                                               *)
(*                                                                         *)
(* Numbers.  A double is a fixed-point integer with FRAC units per 1.0;    *)
(* a product is rounded to the nearest unit.  Angles are measured in       *)
(* quarter-turns instead of radians (pi/2 rad = 1.0 = FRAC units), so the  *)
(* model's angular grid is an eighth of a turn and std::cos / std::sin     *)
(* are tables over that grid.  Quaternion components are kept to three     *)
(* decimals.                                                               *)
(***************************************************************************)
EXTENDS Integers, Sequences, FiniteSets, TLC

FRAC == 2

\* ---------------------------------------------------------------- bounds
MaxTicks == 2
MaxClock == 4
MaxTicksMT == 1
MaxResetsMT == 1
MaxCmdsMT == 2
MaxCmdsBetween == 1

\* ------------------------------------------------------------ arithmetic
Round(n, d) == (2 * n + d) \div (2 * d)

Mul(a, b) == Round(a * b, FRAC)

\* std::cos on the grid of eighth-turns, in FRAC units
Cos(a) == <<2, 1, 0, -1, -2, -1, 0, 1>>[(a % 8) + 1]

Sin(a) == Cos(a - FRAC)

\* cos(a / 2) and sin(a / 2) for a on the grid, in thousandths
HalfCos(a) ==
  <<1000, 924, 707, 383, 0, -383, -707, -924,
    -1000, -924, -707, -383, 0, 383, 707, 924>>[(a % 16) + 1]

HalfSin(a) == HalfCos(a - 2 * FRAC)

\* std::atan2 of a direction (s, c) on the grid, in (-half-turn, half-turn]
Atan2(s, c) ==
  CHOOSE a \in (1 - 2 * FRAC)..(2 * FRAC) : Cos(a) = c /\ Sin(a) = s

\* ------------------------------------------------------------------ tf2
\* tf2::Quaternion::setRPY(0, 0, yaw)
SetRPY(yaw) == [x |-> 0, y |-> 0, z |-> HalfSin(yaw), w |-> HalfCos(yaw)]

\* tf2::Matrix3x3::setRotation(q), the planar block, in FRAC units
SetRotation(q) ==
  LET d == q.x * q.x + q.y * q.y + q.z * q.z + q.w * q.w
  IN  [xx |-> Round(FRAC * (d - 2 * (q.y * q.y + q.z * q.z)), d),
       xy |-> Round(FRAC * 2 * (q.x * q.y - q.w * q.z), d),
       yx |-> Round(FRAC * 2 * (q.x * q.y + q.w * q.z), d),
       yy |-> Round(FRAC * (d - 2 * (q.x * q.x + q.z * q.z)), d)]

\* tf2::Matrix3x3::getRPY, the yaw
GetRPY(m) == Atan2(m.yx, m.xx)

MatVec(m, p) ==
  [x |-> Mul(m.xx, p.x) + Mul(m.xy, p.y),
   y |-> Mul(m.yx, p.x) + Mul(m.yy, p.y)]

MatMat(a, b) ==
  [xx |-> Mul(a.xx, b.xx) + Mul(a.xy, b.yx),
   xy |-> Mul(a.xx, b.xy) + Mul(a.xy, b.yy),
   yx |-> Mul(a.yx, b.xx) + Mul(a.yy, b.yx),
   yy |-> Mul(a.yx, b.xy) + Mul(a.yy, b.yy)]

Transpose(m) == [xx |-> m.xx, xy |-> m.yx, yx |-> m.xy, yy |-> m.yy]

\* tf2::Transform::inverse()
Inverse(t) ==
  LET inv == Transpose(t.basis)
  IN  [basis |-> inv,
       origin |-> MatVec(inv, [x |-> 0 - t.origin.x, y |-> 0 - t.origin.y])]

\* tf2::Transform::operator*
Compose(t1, t2) ==
  LET r == MatVec(t1.basis, t2.origin)
  IN  [basis |-> MatMat(t1.basis, t2.basis),
       origin |-> [x |-> r.x + t1.origin.x, y |-> r.y + t1.origin.y]]

\* ------------------------------------------------------------- messages
NoHeader == [stamp |-> 0, frame_id |-> ""]

\* NavSim::convertToPose<PoseType>
ConvertToPose(state) ==
  [header |-> NoHeader,
   position |-> [x |-> state.x_, y |-> state.y_, z |-> 0],
   orientation |-> SetRPY(state.yaw_)]

\* NavSim::convertToTransform
ConvertToTransform(pose) ==
  [origin |-> [x |-> pose.position.x, y |-> pose.position.y],
   basis |-> SetRotation(pose.orientation)]

\* NavSim::publishPoseToTransform: the transform handed to the broadcaster
PoseToTransform(pose, frame) ==
  [frame_id |-> "map", child_frame_id |-> frame,
   translation |-> pose.position, rotation |-> pose.orientation]

\* ------------------------------------------------------- configuration
\* an entry's x or y is <<number>>, or NoValue when missing or not a number
NoValue == <<>>

\* What the path given by the "config" parameter holds: whether
\* YAML::LoadFile can load it, and its entries in document order.
ConfigFiles ==
  { [readable |-> FALSE, entries |-> <<>>],
    [readable |-> TRUE, entries |-> <<>>],
    [readable |-> TRUE,
     entries |-> <<[id |-> "b", x |-> <<FRAC>>, y |-> <<2 * FRAC>>],
                   [id |-> "a", x |-> <<3 * FRAC>>, y |-> <<4 * FRAC>>]>>],
    [readable |-> TRUE,
     entries |-> <<[id |-> "a", x |-> <<FRAC>>, y |-> <<2 * FRAC>>],
                   [id |-> "b", x |-> NoValue, y |-> <<4 * FRAC>>]>>],
    [readable |-> TRUE,
     entries |-> <<[id |-> "a", x |-> <<FRAC>>, y |-> NoValue]>>] }

\* the yaw_ of a Landmark, which parseYaml never assigns
LandmarkYaw == [yaw_ |-> 0]

Threw == [threw |-> TRUE, list |-> <<>>]

RECURSIVE ParseLoop(_, _, _)
ParseLoop(file, itr, landmark_pose_list) ==
  IF itr > Len(file.entries)
  THEN [threw |-> FALSE, list |-> landmark_pose_list]
  ELSE LET e == file.entries[itr]
       IN  IF e.x = NoValue \/ e.y = NoValue
           THEN Threw
           ELSE ParseLoop(file, itr + 1,
                  Append(landmark_pose_list,
                    [landmark_id_ |-> e.id, x_ |-> e.x[1], y_ |-> e.y[1],
                     yaw_ |-> LandmarkYaw.yaw_]))

\* NavSim::parseYaml
ParseYaml(file) ==
  IF ~file.readable THEN Threw ELSE ParseLoop(file, 1, <<>>)


\* --------------------------------------------------------------- inputs
\* values of the "error_coeff" parameter
ErrorCoeffs == {0, 1}

\* samples of std::normal_distribution<>(0.0, 1.0)
DistDraws == {0 - FRAC, FRAC}

\* what previous_time_ holds before the first tick assigns it
UnsetTimes == {0, FRAC}

\* the clock reading when the node is constructed
StartClocks == {FRAC}

\* geometry_msgs::Twist messages on /cmd_vel
CmdMsgs ==
  { [linear_x |-> 0, angular_z |-> 0],
    [linear_x |-> 2 * FRAC, angular_z |-> 0],
    [linear_x |-> FRAC, angular_z |-> FRAC] }

\* poses on /initialpose: a position, and the yaw and the norm the
\* orientation quaternion is made with
ResetPoses ==
  { [x |-> FRAC, y |-> FRAC, yaw |-> FRAC, norm |-> 1],
    [x |-> 0 - FRAC, y |-> 2 * FRAC, yaw |-> 3 * FRAC, norm |-> 2] }

Scaled(q, k) == [x |-> k * q.x, y |-> k * q.y, z |-> k * q.z, w |-> k * q.w]

\* geometry_msgs::PoseWithCovarianceStamped
InitialposeMsg(p) ==
  [position |-> [x |-> p.x, y |-> p.y],
   orientation |-> Scaled(SetRPY(p.yaw), p.norm)]

\* ---------------------------------------------------------------- state
VARIABLES
  phase,                \* "constructed", "running" (timer created), "aborted"
  config_,              \* the file the "config" parameter names
  error_coeff_,
  landmark_pose_list_,
  timer_,               \* whether the periodic timer exists
  clock,                \* ros::Time::now()
  previous_time_,
  state_,
  v_, w_,
  cmd_vel_,
  current_pose_,
  path_pub_,            \* the last message published on landmark_path
  currnet_pose_pub_,    \* the last message published on /current_pose
  tf_,                  \* the transforms broadcast by the last tick
  m_,                   \* the mutex: "free" or "held"
  t_pc, t_loc,          \* a running timerCallback's position and locals
  r_pc, r_msg,          \* a running callbackInitialpose's position and message
  ticks,                \* ticks completed
  startup,              \* the clock reading when initialize ran
  tk,                   \* history of the running tick
  rs,                   \* history of the pose reset since the last tick
  conv,                 \* history of the ticks under one command
  used                  \* messages handled by the threaded callbacks

vars ==
  <<phase, config_, error_coeff_, landmark_pose_list_, timer_, clock,
    previous_time_, state_, v_, w_, cmd_vel_, current_pose_, path_pub_,
    currnet_pose_pub_, tf_, m_, t_pc, t_loc, r_pc, r_msg, ticks, startup,
    tk, rs, conv, used>>

NoMsg == [x |-> 0, y |-> 0, yaw |-> 0, norm |-> 0]

NoPub == [header |-> [stamp |-> 0, frame_id |-> "unpublished"]]

NoLocals ==
  [current_time |-> 0, sampling_time |-> 0, plan_v |-> 0, plan_w |-> 0]

\* State's and Velocity's values in a constructed NavSim
InitialState == [x_ |-> 0, y_ |-> 0, yaw_ |-> 0]

InitialVelocity == [v |-> 0, w |-> 0]

NoTick ==
  [n |-> 0, state0 |-> InitialState, v0 |-> 0, w0 |-> 0,
   cmd0 |-> [linear_x |-> 0, angular_z |-> 0], dt |-> 0,
   err |-> <<0, 0, 0>>, resets |-> 0, after_reset |-> FALSE]

NoReset == [seen |-> FALSE, pose |-> NoMsg, v0 |-> 0, w0 |-> 0]

NoConv == [len |-> 0, v0 |-> 0, w0 |-> 0, resets |-> FALSE]

Init ==
  /\ phase = "constructed"
  /\ config_ \in ConfigFiles
  /\ error_coeff_ = 0
  /\ landmark_pose_list_ = <<>>
  /\ timer_ = FALSE
  /\ clock \in StartClocks
  /\ previous_time_ \in UnsetTimes
  /\ state_ = InitialState
  /\ v_ = InitialVelocity.v
  /\ w_ = InitialVelocity.w
  /\ cmd_vel_ = [linear_x |-> 0, angular_z |-> 0]
  /\ current_pose_ = ConvertToPose(InitialState)
  /\ path_pub_ = NoPub
  /\ currnet_pose_pub_ = NoPub
  /\ tf_ = <<>>
  /\ m_ = "free"
  /\ t_pc = "idle"
  /\ t_loc = NoLocals
  /\ r_pc = "idle"
  /\ r_msg = NoMsg
  /\ ticks = 0
  /\ startup = 0
  /\ tk = NoTick
  /\ rs = NoReset
  /\ conv = NoConv
  /\ used = [ticks |-> 0, resets |-> 0, cmds |-> 0]

\* ----------------------------------------------------------- initialize
\* an initialize that creates the timer whatever the loader did
InitializeTimerAnyway ==
  /\ phase = "constructed"
  /\ \E ec \in ErrorCoeffs :
       LET parsed == ParseYaml(config_)
       IN  /\ error_coeff_' = ec
           /\ landmark_pose_list_' = parsed.list
           /\ timer_' = TRUE
           /\ phase' = "running"
  /\ startup' = clock
  /\ UNCHANGED <<config_, clock, previous_time_, state_, v_, w_, cmd_vel_,
                 current_pose_, path_pub_, currnet_pose_pub_, tf_, m_, t_pc,
                 t_loc, r_pc, r_msg, ticks, tk, rs, conv, used>>

\* NavSim::initialize: an exception of parseYaml leaves it at line 14
Initialize ==
  /\ phase = "constructed"
  /\ \E ec \in ErrorCoeffs :
       LET parsed == ParseYaml(config_)
       IN  /\ error_coeff_' = ec
           /\ IF parsed.threw
              THEN /\ phase' = "aborted"
                   /\ UNCHANGED <<landmark_pose_list_, timer_>>
              ELSE /\ landmark_pose_list_' = parsed.list
                   /\ timer_' = TRUE
                   /\ phase' = "running"
  /\ startup' = clock
  /\ UNCHANGED <<config_, clock, previous_time_, state_, v_, w_, cmd_vel_,
                 current_pose_, path_pub_, currnet_pose_pub_, tf_, m_, t_pc,
                 t_loc, r_pc, r_msg, ticks, tk, rs, conv, used>>

\* the threaded ticks explored are not over
Open == used.ticks < MaxTicksMT \/ t_pc # "idle"

\* time passing while the node spins, seen where a tick reads the clock
Elapse ==
  /\ phase = "running"
  /\ Open
  /\ t_pc \in {"idle", "l52"}
  /\ clock < MaxClock
  /\ clock' = clock + 1
  /\ UNCHANGED <<phase, config_, error_coeff_, landmark_pose_list_, timer_,
                 previous_time_, state_, v_, w_, cmd_vel_, current_pose_,
                 path_pub_, currnet_pose_pub_, tf_, m_, t_pc, t_loc, r_pc,
                 r_msg, ticks, startup, tk, rs, conv, used>>

\* ------------------------------------------------------- the tick's steps
Kp == FRAC

\* the error taken with the opposite sign
PlanVelocityReversed(cmd, v, w) ==
  [v |-> Mul(Kp, v - cmd.linear_x), w |-> Mul(Kp, w - cmd.angular_z)]

\* NavSim::planVelocity
PlanVelocity(cmd, v, w) ==
  [v |-> Mul(Kp, cmd.linear_x - v), w |-> Mul(Kp, cmd.angular_z - w)]

\* line 44
StepYaw(state, w, sampling_time) ==
  [state EXCEPT !.yaw_ = @ + Mul(w, sampling_time)]

\* line 45
StepX(state, v, sampling_time) ==
  [state EXCEPT !.x_ = @ + Mul(Mul(v, Cos(state.yaw_)), sampling_time)]

\* line 46
StepY(state, v, sampling_time) ==
  [state EXCEPT !.y_ = @ + Mul(Mul(v, Sin(state.yaw_)), sampling_time)]

\* the position advanced along the old yaw, the yaw after it
IntegrateOldYaw(state, v, w, sampling_time) ==
  StepYaw(StepY(StepX(state, v, sampling_time), v, sampling_time),
          w, sampling_time)

\* lines 44-46
Integrate(state, v, w, sampling_time) ==
  StepY(StepX(StepYaw(state, w, sampling_time), v, sampling_time),
        v, sampling_time)

\* what simTransferError adds for the draws d
ErrorOf(coeff, d) == <<Mul(coeff, d[1]), Mul(coeff, d[2]), Mul(coeff, d[3])>>

\* NavSim::simTransferError
SimTransferError(state, coeff, d) ==
  [x_ |-> state.x_ + ErrorOf(coeff, d)[1],
   y_ |-> state.y_ + ErrorOf(coeff, d)[2],
   yaw_ |-> state.yaw_ + ErrorOf(coeff, d)[3]]

\* lines 52-54
StampedPose(state, now) ==
  [ConvertToPose(state) EXCEPT
     !.header = [stamp |-> now, frame_id |-> "base_link"]]

\* lines 58-59
UpdateVelocity(v, w, plan, sampling_time) ==
  [v |-> v + Mul(plan.v, sampling_time), w |-> w + Mul(plan.w, sampling_time)]

\* the composition without the inverse
BaseToLandmarkNoInverse(pose, landmark) ==
  Compose(ConvertToTransform(pose), ConvertToTransform(ConvertToPose(landmark)))

\* lines 64-69: the landmark in the frame of the pose
BaseToLandmark(pose, landmark) ==
  LET landmark_pose == ConvertToPose(landmark)
      map_to_base == ConvertToTransform(pose)
      map_to_landmark == ConvertToTransform(landmark_pose)
  IN  Compose(Inverse(map_to_base), map_to_landmark)

\* lines 61-81: the loop over landmark_pose_list_, from its i-th landmark;
\* out is the path and the transforms broadcast so far
RECURSIVE PathLoop(_, _, _, _)
PathLoop(list, i, pose, out) ==
  IF i > Len(list) THEN out
  ELSE LET landmark == list[i]
           base_to_landmark == BaseToLandmark(pose, landmark)
           poses == Append(Append(out.path.poses, [x |-> 0, y |-> 0]),
                           [x |-> base_to_landmark.origin.x,
                            y |-> base_to_landmark.origin.y])
       IN  PathLoop(list, i + 1, pose,
             [path |-> [header |-> pose.header, poses |-> poses],
              tf |-> Append(out.tf,
                       PoseToTransform(ConvertToPose(landmark),
                                       landmark.landmark_id_))])

\* a loop that appends only the landmark's point
RECURSIVE PathLoopOnePoint(_, _, _, _)
PathLoopOnePoint(list, i, pose, out) ==
  IF i > Len(list) THEN out
  ELSE LET landmark == list[i]
           base_to_landmark == BaseToLandmark(pose, landmark)
           poses == Append(out.path.poses,
                           [x |-> base_to_landmark.origin.x,
                            y |-> base_to_landmark.origin.y])
       IN  PathLoopOnePoint(list, i + 1, pose,
             [path |-> [header |-> pose.header, poses |-> poses],
              tf |-> Append(out.tf,
                       PoseToTransform(ConvertToPose(landmark),
                                       landmark.landmark_id_))])

LandmarkPathOnePoint(list, pose, tf) ==
  PathLoopOnePoint(list, 1, pose,
    [path |-> [header |-> NoHeader, poses |-> <<>>], tf |-> tf])

\* lines 61-83: the path published and the transforms broadcast
LandmarkPath(list, pose, tf) ==
  PathLoop(list, 1, pose,
    [path |-> [header |-> NoHeader, poses |-> <<>>], tf |-> tf])


\* ------------------------------------------------------------ histories
SmallStep(sampling_time) == 0 <= sampling_time /\ sampling_time < FRAC

ConvAfterTick(sampling_time) ==
  IF ~SmallStep(sampling_time) THEN NoConv
  ELSE IF conv.len > 0
       THEN [conv EXCEPT !.len = @ + 1]
       ELSE [len |-> 1, v0 |-> v_, w0 |-> w_, resets |-> FALSE]

\* ------------------------------------------------- handlers, run whole
\* lines 36-88 with the draws d of simTransferError
TickResult(d) ==
  LET current_time == clock
      sampling_time == current_time - previous_time_
      plan == PlanVelocity(cmd_vel_, v_, w_)
      moved == Integrate(state_, v_, w_, sampling_time)
      noisy == SimTransferError(moved, error_coeff_, d)
      pose == StampedPose(noisy, clock)
      vel == UpdateVelocity(v_, w_, plan, sampling_time)
      out == LandmarkPath(landmark_pose_list_, pose,
                          <<PoseToTransform(pose, "base_link")>>)
  IN  [state |-> noisy, pose |-> pose, v |-> vel.v, w |-> vel.w,
       path |-> out.path, tf |-> out.tf, previous_time |-> current_time]

\* NavSim::timerCallback
TimerCallback ==
  /\ phase = "running" /\ timer_
  /\ t_pc = "idle" /\ r_pc = "idle"
  /\ ticks < MaxTicks
  /\ \E d1 \in DistDraws, d2 \in DistDraws, d3 \in DistDraws :
       \E r \in {TickResult(<<d1, d2, d3>>)} :
           /\ state_' = r.state
           /\ current_pose_' = r.pose
           /\ v_' = r.v
           /\ w_' = r.w
           /\ path_pub_' = r.path
           /\ tf_' = r.tf
           /\ currnet_pose_pub_' = r.pose
           /\ previous_time_' = r.previous_time
           /\ tk' = [n |-> ticks + 1, state0 |-> state_, v0 |-> v_,
                     w0 |-> w_, cmd0 |-> cmd_vel_,
                     dt |-> clock - previous_time_,
                     err |-> ErrorOf(error_coeff_, <<d1, d2, d3>>),
                     resets |-> 0, after_reset |-> rs.seen]
  /\ ticks' = ticks + 1
  /\ conv' = ConvAfterTick(clock - previous_time_)
  /\ rs' = NoReset
  /\ UNCHANGED <<phase, config_, error_coeff_, landmark_pose_list_, timer_,
                 clock, cmd_vel_, m_, t_pc, t_loc, r_pc, r_msg, startup, used>>

\* the command handler: the latest command overwrites cmd_vel_
CallbackCmdVel ==
  /\ phase = "running"
  /\ \E msg \in CmdMsgs :
       /\ cmd_vel_' = msg
       /\ conv' = IF msg = cmd_vel_ THEN conv ELSE NoConv
  /\ UNCHANGED <<phase, config_, error_coeff_, landmark_pose_list_, timer_,
                 clock, previous_time_, state_, v_, w_, current_pose_,
                 path_pub_, currnet_pose_pub_, tf_, m_, t_pc, t_loc, r_pc,
                 r_msg, ticks, startup, tk, rs, used>>

\* line 100
ResetX(state, msg) == [state EXCEPT !.x_ = msg.position.x]

\* line 101
ResetY(state, msg) == [state EXCEPT !.y_ = msg.position.y]

\* lines 102-108
ResetYaw(state, msg) ==
  [state EXCEPT !.yaw_ = GetRPY(SetRotation(msg.orientation))]

\* lines 100-108
ResetState(state, msg) == ResetYaw(ResetY(ResetX(state, msg), msg), msg)

\* a reset that also stops the robot
CallbackInitialposeStop ==
  /\ phase = "running"
  /\ t_pc = "idle" /\ r_pc = "idle" /\ m_ = "free"
  /\ \E p \in ResetPoses :
       /\ state_' = ResetState(state_, InitialposeMsg(p))
       /\ rs' = [seen |-> TRUE, pose |-> p, v0 |-> v_, w0 |-> w_]
  /\ v_' = 0
  /\ w_' = 0
  /\ conv' = [conv EXCEPT !.resets = (conv.len > 0)]
  /\ tk' = NoTick
  /\ UNCHANGED <<phase, config_, error_coeff_, landmark_pose_list_, timer_,
                 clock, previous_time_, cmd_vel_, current_pose_,
                 path_pub_, currnet_pose_pub_, tf_, m_, t_pc, t_loc, r_pc,
                 r_msg, ticks, startup, used>>

\* NavSim::callbackInitialpose
CallbackInitialpose ==
  /\ phase = "running"
  /\ t_pc = "idle" /\ r_pc = "idle" /\ m_ = "free"
  /\ \E p \in ResetPoses :
       /\ state_' = ResetState(state_, InitialposeMsg(p))
       /\ rs' = [seen |-> TRUE, pose |-> p, v0 |-> v_, w0 |-> w_]
  /\ conv' = [conv EXCEPT !.resets = (conv.len > 0)]
  /\ tk' = NoTick
  /\ UNCHANGED <<phase, config_, error_coeff_, landmark_pose_list_, timer_,
                 clock, previous_time_, v_, w_, cmd_vel_, current_pose_,
                 path_pub_, currnet_pose_pub_, tf_, m_, t_pc, t_loc, r_pc,
                 r_msg, ticks, startup, used>>

Next ==
  \/ Initialize
  \/ Elapse
  \/ TimerCallback
  \/ CallbackCmdVel
  \/ CallbackInitialpose

Spec == Init /\ [][Next]_vars


\* ------------------------------------- handlers, run on several threads
\* The callbacks of a multi-threaded spinner.  Only callbackInitialpose
\* takes the mutex m_, so its statements and timerCallback's interleave.
\* A callback takes one step per statement that reads or writes what
\* another thread writes or reads (state_, cmd_vel_, the clock); the
\* statements on its own data run with the step before them.

\* lines 36-41
T_Start ==
  /\ phase = "running" /\ timer_
  /\ t_pc = "idle"
  /\ ticks < MaxTicks
  /\ used.ticks < MaxTicksMT
  /\ used' = [used EXCEPT !.ticks = @ + 1]
  /\ LET plan == PlanVelocity(cmd_vel_, v_, w_)
     IN  t_loc' = [current_time |-> clock,
                   sampling_time |-> clock - previous_time_,
                   plan_v |-> plan.v, plan_w |-> plan.w]
  /\ tk' = [NoTick EXCEPT !.n = ticks + 1, !.state0 = state_, !.v0 = v_,
                          !.w0 = w_, !.cmd0 = cmd_vel_,
                          !.dt = clock - previous_time_,
                          !.resets = IF r_pc = "idle" THEN 0 ELSE 1]
  /\ t_pc' = "l44"
  /\ UNCHANGED <<phase, config_, error_coeff_, landmark_pose_list_, timer_,
                 clock, previous_time_, state_, v_, w_, cmd_vel_,
                 current_pose_, path_pub_, currnet_pose_pub_, tf_, m_, r_pc,
                 r_msg, ticks, startup, rs, conv>>

\* lines 44, 45, 46: one statement each
T_Integrate ==
  /\ t_pc \in {"l44", "l45", "l46"}
  /\ state_' = CASE t_pc = "l44" -> StepYaw(state_, w_, t_loc.sampling_time)
                 [] t_pc = "l45" -> StepX(state_, v_, t_loc.sampling_time)
                 [] t_pc = "l46" -> StepY(state_, v_, t_loc.sampling_time)
  /\ t_pc' = CASE t_pc = "l44" -> "l45"
               [] t_pc = "l45" -> "l46"
               [] t_pc = "l46" -> "l49"
  /\ UNCHANGED <<phase, config_, error_coeff_, landmark_pose_list_, timer_,
                 clock, previous_time_, v_, w_, cmd_vel_, current_pose_,
                 path_pub_, currnet_pose_pub_, tf_, m_, t_loc, r_pc, r_msg,
                 ticks, startup, tk, rs, conv, used>>

\* line 49
T_Error ==
  /\ t_pc = "l49"
  /\ \E d1 \in DistDraws, d2 \in DistDraws, d3 \in DistDraws :
       /\ state_' = SimTransferError(state_, error_coeff_, <<d1, d2, d3>>)
       /\ tk' = [tk EXCEPT !.err = ErrorOf(error_coeff_, <<d1, d2, d3>>)]
  /\ t_pc' = "l52"
  /\ UNCHANGED <<phase, config_, error_coeff_, landmark_pose_list_, timer_,
                 clock, previous_time_, v_, w_, cmd_vel_, current_pose_,
                 path_pub_, currnet_pose_pub_, tf_, m_, t_loc, r_pc, r_msg,
                 ticks, startup, rs, conv, used>>

\* lines 52-55
T_Pose ==
  /\ t_pc = "l52"
  /\ current_pose_' = StampedPose(state_, clock)
  /\ tf_' = <<PoseToTransform(StampedPose(state_, clock), "base_link")>>
  /\ t_pc' = "l58"
  /\ UNCHANGED <<phase, config_, error_coeff_, landmark_pose_list_, timer_,
                 clock, previous_time_, state_, v_, w_, cmd_vel_, path_pub_,
                 currnet_pose_pub_, m_, t_loc, r_pc, r_msg, ticks, startup,
                 tk, rs, conv, used>>

\* a target computed anew at line 58
TargetReplan ==
  PlanVelocity(cmd_vel_, v_, w_)

\* the target of lines 58-59
Target ==
  [v |-> t_loc.plan_v, w |-> t_loc.plan_w]

\* lines 58-86
T_Velocity ==
  /\ t_pc = "l58"
  /\ LET vel == UpdateVelocity(v_, w_, Target, t_loc.sampling_time)
     IN  v_' = vel.v /\ w_' = vel.w
  /\ \E out \in {LandmarkPath(landmark_pose_list_, current_pose_, tf_)} :
       path_pub_' = out.path /\ tf_' = out.tf
  /\ currnet_pose_pub_' = current_pose_
  /\ t_pc' = "l88"
  /\ UNCHANGED <<phase, config_, error_coeff_, landmark_pose_list_, timer_,
                 clock, previous_time_, state_, cmd_vel_, current_pose_, m_,
                 t_loc, r_pc, r_msg, ticks, startup, tk, rs, conv, used>>

\* line 88, and the return
T_Previous ==
  /\ t_pc = "l88"
  /\ previous_time_' = t_loc.current_time
  /\ ticks' = ticks + 1
  /\ t_pc' = "idle"
  /\ t_loc' = NoLocals
  /\ tk' = NoTick
  /\ r_msg' = IF r_pc = "idle" THEN NoMsg ELSE r_msg
  /\ UNCHANGED <<phase, config_, error_coeff_, landmark_pose_list_, timer_,
                 clock, state_, v_, w_, cmd_vel_, current_pose_, path_pub_,
                 currnet_pose_pub_, tf_, m_, r_pc, startup, rs, conv, used>>

\* line 99: the message arrives while a tick runs, and the lock is taken
R_Lock ==
  /\ phase = "running"
  /\ r_pc = "idle" /\ m_ = "free"
  /\ t_pc # "idle"
  /\ used.resets < MaxResetsMT
  /\ used' = [used EXCEPT !.resets = @ + 1]
  /\ \E p \in ResetPoses : r_msg' = p
  /\ m_' = "held"
  /\ r_pc' = "l100"
  /\ tk' = [tk EXCEPT !.resets = @ + 1]
  /\ UNCHANGED <<phase, config_, error_coeff_, landmark_pose_list_, timer_,
                 clock, previous_time_, state_, v_, w_, cmd_vel_,
                 current_pose_, path_pub_, currnet_pose_pub_, tf_, t_pc,
                 t_loc, ticks, startup, rs, conv>>

\* lines 100, 101, 102-108: one statement each; the return frees the lock
R_Write ==
  /\ r_pc \in {"l100", "l101", "l102"}
  /\ state_' = CASE r_pc = "l100" -> ResetX(state_, InitialposeMsg(r_msg))
                 [] r_pc = "l101" -> ResetY(state_, InitialposeMsg(r_msg))
                 [] r_pc = "l102" -> ResetYaw(state_, InitialposeMsg(r_msg))
  /\ r_pc' = CASE r_pc = "l100" -> "l101"
               [] r_pc = "l101" -> "l102"
               [] r_pc = "l102" -> "idle"
  /\ m_' = IF r_pc = "l102" THEN "free" ELSE m_
  /\ UNCHANGED <<phase, config_, error_coeff_, landmark_pose_list_, timer_,
                 clock, previous_time_, v_, w_, cmd_vel_, current_pose_,
                 path_pub_, currnet_pose_pub_, tf_, t_pc, t_loc, r_msg, ticks,
                 startup, tk, rs, conv, used>>

\* the command handler on its thread, before a tick or after its line 41
C_CmdVel ==
  /\ phase = "running"
  /\ t_pc \in {"idle", "l58"}
  /\ Open
  /\ used.cmds < MaxCmdsMT
  /\ used' = [used EXCEPT !.cmds = @ + 1]
  /\ \E msg \in CmdMsgs : cmd_vel_' = msg
  /\ UNCHANGED <<phase, config_, error_coeff_, landmark_pose_list_, timer_,
                 clock, previous_time_, state_, v_, w_, current_pose_,
                 path_pub_, currnet_pose_pub_, tf_, m_, t_pc, t_loc, r_pc,
                 r_msg, ticks, startup, tk, rs, conv>>

\* a tick that no other callback overlaps
T_Alone ==
  /\ used.ticks = 0
  /\ used.resets = 0
  /\ TimerCallback

\* a command handled between two ticks
C_CmdVelBetween ==
  /\ t_pc = "idle"
  /\ used.cmds < MaxCmdsBetween
  /\ C_CmdVel

\* timerCallback and callbackInitialpose on two threads
NextMT ==
  \/ Initialize
  \/ Elapse
  \/ T_Alone
  \/ T_Start
  \/ T_Integrate
  \/ T_Error
  \/ T_Pose
  \/ T_Velocity
  \/ T_Previous
  \/ R_Lock
  \/ R_Write
  \/ C_CmdVelBetween

SpecMT == Init /\ [][NextMT]_vars

\* timerCallback and the command handler on two threads
NextCmd ==
  \/ Initialize
  \/ Elapse
  \/ T_Alone
  \/ T_Start
  \/ T_Integrate
  \/ T_Error
  \/ T_Pose
  \/ T_Velocity
  \/ T_Previous
  \/ C_CmdVel

SpecCmd == Init /\ [][NextCmd]_vars


\* ------------------------------------------------------------ properties
\* Used by the properties below: the kinematic step and the error written
\* out, a yaw brought into (-half-turn, half-turn], a rotation by -yaw.
Kinematic(state, v, w, dt) ==
  LET yaw1 == state.yaw_ + Mul(w, dt)
  IN  [x_ |-> state.x_ + Mul(Mul(v, Cos(yaw1)), dt),
       y_ |-> state.y_ + Mul(Mul(v, Sin(yaw1)), dt),
       yaw_ |-> yaw1]

Plus(state, e) ==
  [x_ |-> state.x_ + e[1], y_ |-> state.y_ + e[2], yaw_ |-> state.yaw_ + e[3]]

NormYaw(a) == ((a + 2 * FRAC - 1) % (4 * FRAC)) - (2 * FRAC - 1)

PoseOfReset(p) == [x_ |-> p.x, y_ |-> p.y, yaw_ |-> NormYaw(p.yaw)]

RotateBack(d, yaw) ==
  [x |-> Mul(Cos(yaw), d.x) + Mul(Sin(yaw), d.y),
   y |-> Mul(0 - Sin(yaw), d.x) + Mul(Cos(yaw), d.y)]

Between(a, x, b) == (a <= x /\ x <= b) \/ (b <= x /\ x <= a)

Abs(n) == IF n < 0 THEN 0 - n ELSE n

ConfigLoads(file) ==
  /\ file.readable
  /\ \A i \in 1..Len(file.entries) :
       file.entries[i].x # NoValue /\ file.entries[i].y # NoValue

\* C1: a pose reset that overlaps a tick leaves State, once both are done
\* with it, either at the reset pose (reset after the tick's integration
\* and error) or at the reset pose integrated and perturbed (reset before),
\* never at a mix.  Stated of the threaded callbacks.
C1_ResetNeverTorn ==
  (t_pc = "l88" /\ r_pc = "idle" /\ tk.resets = 1) =>
     \/ state_ = PoseOfReset(r_msg)
     \/ state_ = Plus(Kinematic(PoseOfReset(r_msg), tk.v0, tk.w0, tk.dt),
                      tk.err)

\* C2: over ticks under one command with 0 <= sampling_time < 1, v stays
\* between the value it started from and the command and each tick moves it
\* toward the command (no overshoot, no step back); likewise w; pose resets
\* between the ticks change nothing of this.
C2_MonotoneNoOvershoot ==
  [][conv'.len >= 1 =>
       /\ Between(conv'.v0, v_', cmd_vel_'.linear_x)
       /\ Between(conv'.w0, w_', cmd_vel_'.angular_z)
       /\ (ticks' = ticks + 1 =>
             /\ Between(v_, v_', cmd_vel_.linear_x)
             /\ Between(w_, w_', cmd_vel_.angular_z))]_vars

C2_Witness ==
  /\ conv.len >= 2
  /\ conv.resets
  /\ conv.v0 < v_ /\ v_ < cmd_vel_.linear_x
  /\ conv.w0 < w_ /\ w_ <= cmd_vel_.angular_z

\* C3: within a tick the target is computed from the Velocity and the
\* command held at its start, State is integrated with that Velocity and
\* then perturbed, the pose is converted and broadcast, and only then
\* Velocity becomes v + target_v * dt, w + target_w * dt with the same dt;
\* a command that arrives after the target was computed does not change
\* the update.
C3_TickOrder ==
  /\ (t_pc \in {"l44", "l45", "l46", "l49", "l52", "l58"} =>
        /\ v_ = tk.v0 /\ w_ = tk.w0
        /\ t_loc.sampling_time = tk.dt
        /\ t_loc.plan_v = Mul(Kp, tk.cmd0.linear_x - tk.v0)
        /\ t_loc.plan_w = Mul(Kp, tk.cmd0.angular_z - tk.w0))
  /\ (t_pc = "l44" => state_ = tk.state0)
  /\ (t_pc = "l49" =>
        state_ = Kinematic(tk.state0, tk.v0, tk.w0, tk.dt))
  /\ (t_pc \in {"l52", "l58", "l88"} =>
        state_ = Plus(Kinematic(tk.state0, tk.v0, tk.w0, tk.dt), tk.err))
  /\ (t_pc \in {"l58", "l88"} =>
        /\ current_pose_.position = [x |-> state_.x_, y |-> state_.y_, z |-> 0]
        /\ tf_[1].child_frame_id = "base_link"
        /\ tf_[1].translation = current_pose_.position)
  /\ (t_pc = "l88" =>
        /\ v_ = tk.v0 + Mul(Mul(Kp, tk.cmd0.linear_x - tk.v0), tk.dt)
        /\ w_ = tk.w0 + Mul(Mul(Kp, tk.cmd0.angular_z - tk.w0), tk.dt))

C3_Witness ==
  /\ t_pc = "l88"
  /\ cmd_vel_ # tk.cmd0
  /\ tk.v0 # 0 /\ tk.w0 # 0 /\ tk.dt > 0
  /\ v_ # tk.v0
  /\ state_.x_ # tk.state0.x_ /\ state_.yaw_ # tk.state0.yaw_

\* C4: a tick turns first and moves along the new yaw:
\* yaw' = yaw + w*dt, x' = x + v*cos(yaw')*dt, y' = y + v*sin(yaw')*dt
\* (then the error); from (0,0,0) with v = 1, w = a quarter-turn per second,
\* dt = 1 and no error the result is (0, 1, quarter-turn).
C4_YawFirst ==
  (tk.n > 0 /\ t_pc = "idle") =>
     /\ state_ = Plus(Kinematic(tk.state0, tk.v0, tk.w0, tk.dt), tk.err)
     /\ (/\ tk.state0 = [x_ |-> 0, y_ |-> 0, yaw_ |-> 0]
         /\ tk.v0 = FRAC /\ tk.w0 = FRAC /\ tk.dt = FRAC
         /\ tk.err = <<0, 0, 0>>
         => state_ = [x_ |-> 0, y_ |-> FRAC, yaw_ |-> FRAC])

C4_Witness ==
  /\ tk.n > 0
  /\ tk.state0 = [x_ |-> 0, y_ |-> 0, yaw_ |-> 0]
  /\ tk.v0 = FRAC /\ tk.w0 = FRAC /\ tk.dt = FRAC
  /\ error_coeff_ = 0
  /\ state_ = [x_ |-> 0, y_ |-> FRAC, yaw_ |-> FRAC]

\* C5: the registry holds the configuration's entries in their order and no
\* handler changes it; a tick's path has two points per landmark, the
\* origin (0,0) and then the landmark's relative position, in that order.
C5_PathShape ==
  /\ (phase = "running" =>
        landmark_pose_list_ =
          [i \in 1..Len(config_.entries) |->
             [landmark_id_ |-> config_.entries[i].id,
              x_ |-> config_.entries[i].x[1],
              y_ |-> config_.entries[i].y[1],
              yaw_ |-> 0]])
  /\ (ticks > 0 =>
        /\ Len(path_pub_.poses) = 2 * Len(landmark_pose_list_)
        /\ \A i \in 1..Len(landmark_pose_list_) :
             /\ path_pub_.poses[2 * i - 1] = [x |-> 0, y |-> 0]
             /\ path_pub_.poses[2 * i] =
                  BaseToLandmark(current_pose_, landmark_pose_list_[i]).origin)

C5_Witness ==
  /\ ticks = MaxTicks
  /\ Len(landmark_pose_list_) = 2
  /\ Len(path_pub_.poses) = 4
  /\ rs.seen
  /\ path_pub_.poses[2] # path_pub_.poses[4]
  /\ path_pub_.poses[2] # [x |-> 0, y |-> 0]

\* C6: a pose reset writes State.x, State.y and State.yaw from the message
\* and leaves Velocity, the command, the registry and previous_time_ as
\* they were; the tick after it integrates from the reset pose with the
\* velocity tracked before the reset.
C6_ResetOnlyPose ==
  [][/\ (ticks' = ticks /\ (state_' # state_ \/ rs' # rs)) =>
          /\ rs'.seen
          /\ state_' = PoseOfReset(rs'.pose)
          /\ v_' = v_ /\ w_' = w_
          /\ rs'.v0 = v_ /\ rs'.w0 = w_
          /\ cmd_vel_' = cmd_vel_
          /\ landmark_pose_list_' = landmark_pose_list_
          /\ previous_time_' = previous_time_
     /\ (ticks' = ticks + 1 /\ rs.seen) =>
          /\ tk'.after_reset
          /\ tk'.state0 = PoseOfReset(rs.pose)
          /\ tk'.v0 = rs.v0 /\ tk'.w0 = rs.w0
          /\ state_' = Plus(Kinematic(PoseOfReset(rs.pose), rs.v0, rs.w0,
                                      tk'.dt), tk'.err)]_vars

C6_Witness ==
  /\ tk.n > 0 /\ tk.after_reset
  /\ \E p \in ResetPoses : tk.state0 = PoseOfReset(p)
  /\ tk.v0 # 0 /\ tk.w0 # 0 /\ tk.dt > 0
  /\ state_.x_ # tk.state0.x_ /\ state_.yaw_ # tk.state0.yaw_

\* C7: every path a tick publishes carries the frame "base_link" and the
\* stamp of the pose published by that tick, whatever the number of
\* landmarks.
C7_PathHeader ==
  ticks > 0 =>
    /\ path_pub_.header.frame_id = "base_link"
    /\ path_pub_.header.stamp = currnet_pose_pub_.header.stamp

\* C8: the second point of a landmark's segment is the landmark's offset
\* from the robot rotated by minus the robot's yaw, the robot's pose being
\* State after this tick's integration and error: exactly when the yaw is a
\* multiple of a quarter-turn, and to within one rounding unit otherwise.
\* Robot (1,1,quarter-turn), landmark (1,2): (1,0); robot (0,0,0),
\* landmark (3,4): (3,4).
C8_RelativePoint ==
  (tk.n > 0 /\ t_pc = "idle") =>
    \A i \in 1..Len(landmark_pose_list_) :
      LET l == landmark_pose_list_[i]
          want == RotateBack([x |-> l.x_ - state_.x_, y |-> l.y_ - state_.y_],
                             state_.yaw_)
          got == path_pub_.poses[2 * i]
      IN  /\ Abs(got.x - want.x) <= 1 /\ Abs(got.y - want.y) <= 1
          /\ (state_.yaw_ % FRAC = 0 => got = want)
          /\ (/\ state_ = [x_ |-> FRAC, y_ |-> FRAC, yaw_ |-> FRAC]
              /\ l.x_ = FRAC /\ l.y_ = 2 * FRAC
              => got = [x |-> FRAC, y |-> 0])
          /\ (/\ state_ = [x_ |-> 0, y_ |-> 0, yaw_ |-> 0]
              /\ l.x_ = 3 * FRAC /\ l.y_ = 4 * FRAC
              => got = [x |-> 3 * FRAC, y |-> 4 * FRAC])

C8_Witness ==
  /\ tk.n > 0 /\ t_pc = "idle"
  /\ tk.err # <<0, 0, 0>>
  /\ state_ = [x_ |-> FRAC, y_ |-> FRAC, yaw_ |-> FRAC]
  /\ Len(landmark_pose_list_) = 2
  /\ landmark_pose_list_[1].x_ = FRAC /\ landmark_pose_list_[1].y_ = 2 * FRAC
  /\ path_pub_.poses[2] = [x |-> FRAC, y |-> 0]

\* C9: when the configuration does not load (unreadable, or an entry
\* without a numeric x or y) the timer is never created, no tick runs and
\* nothing is published or broadcast; the timer exists only with every
\* entry in the registry.
C9_AbortBeforeTimer ==
  /\ (~ConfigLoads(config_) =>
        /\ ~timer_ /\ phase # "running" /\ ticks = 0 /\ t_pc = "idle"
        /\ path_pub_ = NoPub /\ currnet_pose_pub_ = NoPub /\ tf_ = <<>>)
  /\ (timer_ =>
        /\ Len(landmark_pose_list_) = Len(config_.entries)
        /\ \A i \in 1..Len(config_.entries) :
             /\ landmark_pose_list_[i].landmark_id_ = config_.entries[i].id
             /\ <<landmark_pose_list_[i].x_>> = config_.entries[i].x
             /\ <<landmark_pose_list_[i].y_>> = config_.entries[i].y)

C9_Witness ==
  /\ phase = "aborted"
  /\ config_.readable
  /\ Len(config_.entries) = 2
  /\ landmark_pose_list_ = <<>>

\* C10: the sampling_time of the first tick is the time elapsed since
\* startup, previous_time_ having been set at startup.
C10_FirstSamplingSinceStartup ==
  (t_pc # "idle" /\ ticks = 0) =>
    t_loc.sampling_time = t_loc.current_time - startup

====
